---- MODULE Spec2Model ----
(***************************************************************************)
(* zipcodetw/util.py: Address (normalize, tokenize, flat, parse),          *)
(* StandardAddress, Rule (part, match) and Directory (put_precise,         *)
(* put_gradual, put, within_a_transaction, load_chp_csv, find).            *)
(*                                                                         *)
(* A unicode string is a sequence of characters; a character is a TLA+     *)
(* string naming it.  ASCII characters name themselves ("1", "-", "a").    *)
(* Han and full-width characters are named in ASCII:                       *)
(*   "F0".."F9"  full-width digits U+FF10..U+FF19                          *)
(*   "H1".."H9"  the Han numerals yi1 er4 san1 .. jiu3, "H10" is shi2      *)
(*   "tai" U+53F0, "TAI" U+81FA, "wan" U+7063, "sheng" U+7701,             *)
(*   "bei" U+5317, "xin" U+65B0, "zhu" U+7AF9, "chang" U+5834,             *)
(*   "da" U+5927, "dao" U+9053, "gang" U+6E2F, "wu" U+52D9,                *)
(*   "ISP" U+3000, "FCOMMA" U+FF0C, "zhi1" U+4E4B,                         *)
(*   units: "xian" U+7E23, "shi" U+5E02, "xiang" U+9109, "zhen" U+93AE,    *)
(*     "qu" U+5340, "cun" U+6751, "li" U+91CC, "lin" U+9130, "lu" U+8DEF,  *)
(*     "jie" U+8857, "duan" U+6BB5, "xiang4" U+5DF7, "long" U+5F04,        *)
(*     "hao" U+865F, "lou" U+6A13                                          *)
(*   rule keywords: "lian" U+9023, "zhi" U+81F3, "dan" U+55AE,             *)
(*     "shuang" U+96D9, "quan" U+5168, "yi" U+4EE5, "shang" U+4E0A,        *)
(*     "xia" U+4E0B, "han" U+542B, "fu" U+9644, "ji" U+53CA                *)
(*   "zhong" U+4E2D, "zheng" U+6B63: characters with no special role       *)
(***************************************************************************)
EXTENDS Integers, Sequences, FiniteSets, TLC

VARIABLES
    keep_alive,   \* Directory.keep_alive
    conn,         \* Directory.conn: "None", "open" or "closed"
    cur,          \* Directory.cur: "None", "open" or "closed"
    tables,       \* TRUE once create_tables has run on the database file
    db,           \* committed rows: [precise, gradual]
    tx,           \* rows as the open connection sees them: [precise, gradual]
    pc,           \* "idle", or "loading" inside load_chp_csv's for loop
    nrows,        \* data rows the csv reader has yielded in this load
    outcome,      \* the last wrapped call: [op, status, retval, arg]
    lastRow,      \* the row the csv reader yielded last
    putLog,       \* history: the put calls of the rows now in tx
    written,      \* history: key -> zipcodes put_gradual was called with
    preLoad,      \* history: db at entry of the running or last load
    nsIn,         \* normalize: the input string
    nsOut,        \* normalize: <<normalize(s), normalize(normalize(s))>>
    stIn,         \* StandardAddress: the address string
    stOut,        \* StandardAddress: [tokens, standard]
    mIn,          \* Rule.match: [rule_str, addr_str]
    mOut,         \* Rule.match: [rule, addr, result]
    sIn,          \* single-row directory: [head, a, b, n, zipcode]
    sOut          \* single-row directory: [dir, rule, addr, found]

vars == <<keep_alive, conn, cur, tables, db, tx, pc, nrows, outcome, lastRow,
          putLog, written, preLoad, nsIn, nsOut, stIn, stOut, mIn, mOut,
          sIn, sOut>>

dirVars == <<keep_alive, conn, cur, tables, db, tx, pc, nrows, outcome,
             lastRow, putLog, written, preLoad>>
pureVars == <<nsIn, nsOut, stIn, stOut, mIn, mOut, sIn, sOut>>

-----------------------------------------------------------------------------
(* Strings *)

At(s, i) == IF i \in 1..Len(s) THEN s[i] ELSE "EOS"

RECURSIVE Join(_)
\* u''.join(parts)
Join(parts) ==
    IF parts = <<>> THEN <<>> ELSE Head(parts) \o Join(Tail(parts))

RECURSIVE Strings(_, _)
\* every string over the characters cs of length at most n
Strings(cs, n) ==
    IF n = 0 THEN {<<>>}
    ELSE LET shorter == Strings(cs, n - 1)
         IN  shorter \cup {Append(s, c) : s \in shorter, c \in cs}

Digits == {"0", "1", "2", "3", "4", "5", "6", "7", "8", "9"}
FullWidthDigits == {"F0", "F1", "F2", "F3", "F4", "F5", "F6", "F7", "F8", "F9"}
HanDigits == {"H1", "H2", "H3", "H4", "H5", "H6", "H7", "H8", "H9"}
\* code points U+0000..U+007F that occur in the inputs
Ascii == Digits \cup {"a", " ", ",", "-", "~"}

-----------------------------------------------------------------------------
(* Address.normalize *)

\* TO_REPLACE_MAP, keyed by the matched string
TO_REPLACE_MAP ==
    (<<"-">> :> <<"zhi1">>) @@ (<<"~">> :> <<"zhi1">>) @@
    (<<"tai">> :> <<"TAI">>) @@ (<<"bei", "shi">> :> <<"TAI", "bei", "shi">>) @@
    (<<"F1">> :> <<"1">>) @@ (<<"F2">> :> <<"2">>) @@ (<<"F3">> :> <<"3">>) @@
    (<<"F4">> :> <<"4">>) @@ (<<"F5">> :> <<"5">>) @@ (<<"F6">> :> <<"6">>) @@
    (<<"F7">> :> <<"7">>) @@ (<<"F8">> :> <<"8">>) @@ (<<"F9">> :> <<"9">>) @@
    (<<"F0">> :> <<"0">>) @@
    (<<"H1">> :> <<"1">>) @@ (<<"H2">> :> <<"2">>) @@ (<<"H3">> :> <<"3">>) @@
    (<<"H4">> :> <<"4">>) @@ (<<"H5">> :> <<"5">>) @@ (<<"H6">> :> <<"6">>) @@
    (<<"H7">> :> <<"7">>) @@ (<<"H8">> :> <<"8">>) @@ (<<"H9">> :> <<"9">>)

CHINESE_NUMERALS_SET == HanDigits \cup {"H10"}

RECURSIVE AsciiRun(_, _)
\* [\u0000-\u007F]+ from position p: the length of the run
AsciiRun(s, p) ==
    IF At(s, p) \in Ascii THEN 1 + AsciiRun(s, p + 1) ELSE 0

\* (?!da dao | gang wu) at position q fails
Blocked(s, q) ==
    \/ At(s, q) = "da" /\ At(s, q + 1) = "dao"
    \/ At(s, q) = "gang" /\ At(s, q + 1) = "wu"

NumeralFollow == {"duan", "lu", "jie", "xiang4", "long", "hao", "lou"}

\* The length of the match of TO_REPLACE_RE that starts at position p, 0 if
\* none: the alternatives in their order, each with its backtracking.
ToReplaceLen(s, p) ==
    IF p = 1 /\ AsciiRun(s, 1) > 0 THEN AsciiRun(s, 1)
    ELSE IF /\ At(s, p) \in {"tai", "TAI"} /\ At(s, p + 1) = "wan"
            /\ At(s, p + 2) = "sheng" /\ ~Blocked(s, p + 3) THEN 3
    ELSE IF /\ At(s, p) \in {"tai", "TAI"} /\ At(s, p + 1) = "wan"
            /\ ~Blocked(s, p + 2) THEN 2
    ELSE IF At(s, p) \in {" ", "ISP", ",", "FCOMMA", "tai", "~", "-"} THEN 1
    ELSE IF /\ At(s, p) = "bei" /\ At(s, p + 1) = "shi"
            /\ At(s, p - 1) \notin {"TAI", "tai", "xin", "zhu"}
            /\ At(s, p + 2) # "chang" THEN 2
    ELSE IF At(s, p) \in FullWidthDigits THEN 1
    ELSE IF /\ At(s, p) \in HanDigits /\ At(s, p + 1) = "H10"
            /\ At(s, p + 2) \in HanDigits
            /\ At(s, p + 3) \in NumeralFollow THEN 3
    ELSE IF /\ At(s, p) \in HanDigits /\ At(s, p + 1) \in HanDigits
            /\ At(s, p + 2) \in NumeralFollow THEN 2
    ELSE IF /\ At(s, p) = "H10" /\ At(s, p + 1) \in HanDigits
            /\ At(s, p + 2) \in NumeralFollow THEN 2
    ELSE IF At(s, p) \in HanDigits /\ At(s, p + 1) \in NumeralFollow THEN 1
    ELSE 0

\* replace(m) of normalize
replace(found) ==
    IF found \in DOMAIN TO_REPLACE_MAP THEN TO_REPLACE_MAP[found]
    ELSE IF found[1] \in CHINESE_NUMERALS_SET /\ Len(found) = 2
         THEN <<"1">> \o TO_REPLACE_MAP[<<found[2]>>]
    ELSE IF found[1] \in CHINESE_NUMERALS_SET /\ Len(found) = 3
         THEN TO_REPLACE_MAP[<<found[1]>>] \o TO_REPLACE_MAP[<<found[3]>>]
    ELSE <<>>

RECURSIVE ToReplaceSub(_, _)
\* TO_REPLACE_RE.sub(replace, s) from position p on
ToReplaceSub(s, p) ==
    IF p > Len(s) THEN <<>>
    ELSE LET n == ToReplaceLen(s, p)
         IN  IF n = 0 THEN <<s[p]>> \o ToReplaceSub(s, p + 1)
             ELSE replace(SubSeq(s, p, p + n - 1)) \o ToReplaceSub(s, p + n)

normalize(s) == ToReplaceSub(s, 1)

-----------------------------------------------------------------------------
(* Address: tokenize, flat, pick_to_flat, parse *)

NO == 0
SUBNO == 1
NAME == 2
UNIT == 3

\* token[Address.NO] and the like: the tuple is indexed from 0
Field(token, k) == token[k + 1]

\* [xian shi xiang zhen shi qu cun li lin lu jie duan xiang4 long hao lou]
Units == {"xian", "shi", "xiang", "zhen", "qu", "cun", "li", "lin", "lu",
          "jie", "duan", "xiang4", "long", "hao", "lou"}
\* [xiang4 long hao lou]
NumberUnits == {"xiang4", "long", "hao", "lou"}

RECURSIVE DigitRun(_, _)
\* \d+ from position p: the length of the run
DigitRun(s, p) ==
    IF At(s, p) \in Digits THEN 1 + DigitRun(s, p + 1) ELSE 0

\* (?P<no>\d+)(?P<subno>zhi1\d+)?(?=[xiang4 long hao lou]) at position p:
\* [no, subno] as lengths, no = 0 when there is no match
NumberHead(s, p) ==
    LET d1 == DigitRun(s, p)
        q  == p + d1
        d2 == IF At(s, q) = "zhi1" THEN DigitRun(s, q + 1) ELSE 0
    IN  IF d1 = 0 THEN [no |-> 0, subno |-> 0]
        ELSE IF d2 > 0 /\ At(s, q + 1 + d2) \in NumberUnits
             THEN [no |-> d1, subno |-> 1 + d2]
        ELSE IF At(s, q) \in NumberUnits THEN [no |-> d1, subno |-> 0]
        ELSE [no |-> 0, subno |-> 0]

\* (?=\d+(?:zhi1\d+)?[xiang4 long hao lou]|$) at position q
NameLookahead(s, q) == NumberHead(s, q).no > 0 \/ q = Len(s) + 1

\* the second group of TOKEN_RE can match at position q
TokenTail(s, q) == At(s, q) \in Units \/ NameLookahead(s, q)

RECURSIVE LazyName(_, _, _)
\* .{2,}? from position p, tried at length n and longer: the first length
\* after which the second group matches, 0 if none
LazyName(s, p, n) ==
    IF p + n - 1 > Len(s) THEN 0
    ELSE IF TokenTail(s, p + n) THEN n
    ELSE LazyName(s, p, n + 1)

\* (?P<name>\d|.{2,}?) at position p: the length of the name, 0 if none
NameHead(s, p) ==
    IF At(s, p) \in Digits /\ TokenTail(s, p + 1) THEN 1
    ELSE LazyName(s, p, 2)

\* The match of TOKEN_RE at position p: [len, token], len = 0 if none.
TokenAt(s, p) ==
    LET nh == NumberHead(s, p)
        nl == NameHead(s, p)
    IN  IF nh.no > 0
        THEN LET e == p + nh.no + nh.subno
             IN  [len   |-> nh.no + nh.subno + 1,
                  token |-> <<SubSeq(s, p, p + nh.no - 1),
                              SubSeq(s, p + nh.no, e - 1), <<>>, <<s[e]>>>>]
        ELSE IF nl > 0
        THEN LET e == p + nl
                 u == IF At(s, e) \in Units THEN <<s[e]>> ELSE <<>>
             IN  [len   |-> nl + Len(u),
                  token |-> <<<<>>, <<>>, SubSeq(s, p, e - 1), u>>]
        ELSE [len |-> 0, token |-> <<>>]

RECURSIVE FindAll(_, _)
\* TOKEN_RE.findall(s) from position p on
FindAll(s, p) ==
    IF p > Len(s) THEN <<>>
    ELSE LET m == TokenAt(s, p)
         IN  IF m.len = 0 THEN FindAll(s, p + 1)
             ELSE <<m.token>> \o FindAll(s, p + m.len)

tokenize(addr_str) == FindAll(normalize(addr_str), 1)

\* Address(addr_str).tokens
Address(addr_str) == tokenize(addr_str)

\* u''.join(token)
FlatToken(token) == token[1] \o token[2] \o token[3] \o token[4]

RECURSIVE FlatTokens(_)
FlatTokens(tokens) ==
    IF tokens = <<>> THEN <<>>
    ELSE FlatToken(Head(tokens)) \o FlatTokens(Tail(tokens))

\* flat(f, l): tokens[f:l] joined, for 0 <= f and 0 <= l
flat(tokens, f, l) ==
    FlatTokens(SubSeq(tokens, f + 1, IF l < Len(tokens) THEN l ELSE Len(tokens)))

\* pick_to_flat(i, j) for indices in range
pick_to_flat(tokens, i, j) == FlatToken(tokens[i + 1]) \o FlatToken(tokens[j + 1])

DigitValue ==
    [c \in Digits |->
        CASE c = "0" -> 0 [] c = "1" -> 1 [] c = "2" -> 2 [] c = "3" -> 3
          [] c = "4" -> 4 [] c = "5" -> 5 [] c = "6" -> 6 [] c = "7" -> 7
          [] c = "8" -> 8 [] c = "9" -> 9]

RECURSIVE int(_)
\* int(digits or 0)
int(digits) ==
    IF digits = <<>> THEN 0
    ELSE 10 * int(SubSeq(digits, 1, Len(digits) - 1)) + DigitValue[digits[Len(digits)]]

\* parse(idx): tokens[idx] with python's indexing, (0, 0) on IndexError
parse(tokens, idx) ==
    LET i == IF idx >= 0 THEN idx + 1 ELSE Len(tokens) + idx + 1
    IN  IF i \notin 1..Len(tokens) THEN <<0, 0>>
        ELSE LET no    == Field(tokens[i], NO)
                 subno == Field(tokens[i], SUBNO)
             IN  <<int(no), int(SubSeq(subno, 2, Len(subno)))>>

-----------------------------------------------------------------------------
(* StandardAddress *)

LEVEL_UNITS_LIST ==
    <<<<"xian", "shi">>, <<"qu", "shi", "zhen", "xiang">>, <<"lu", "jie", "li">>>>

\* the inner for loop started at 0 in place of start_pos
FirstWithUnitFromZero(tokens, start_pos, unit) ==
    LET hits == {i \in 1..Len(tokens) : Field(tokens[i], UNIT) = <<unit>>}
    IN  IF hits = {} THEN 0
        ELSE CHOOSE i \in hits : \A j \in hits : i <= j

\* the first i in range(start_pos, len_tokens) whose unit is `unit', as an
\* index from 1; 0 if the inner for loop ends without a break
FirstWithUnit(tokens, start_pos, unit) ==
    LET hits == {i \in (start_pos + 1)..Len(tokens) :
                    Field(tokens[i], UNIT) = <<unit>>}
    IN  IF hits = {} THEN 0
        ELSE CHOOSE i \in hits : \A j \in hits : i <= j

RECURSIVE ScanUnits(_, _, _, _)
\* `for unit in units' from the k-th unit on: the index of the token that is
\* appended before the break, 0 if no unit of the level is found
ScanUnits(tokens, start_pos, units, k) ==
    IF k > Len(units) THEN 0
    ELSE LET i == FirstWithUnit(tokens, start_pos, units[k])
         IN  IF i > 0 THEN i
             ELSE ScanUnits(tokens, start_pos, units, k + 1)

RECURSIVE ScanLevels(_, _, _, _)
\* `for units in LEVEL_UNITS_LIST' from the n-th level on:
\* [standard_tokens, start_pos] when the loop ends
ScanLevels(tokens, standard_tokens, start_pos, n) ==
    IF n > Len(LEVEL_UNITS_LIST)
    THEN [standard_tokens |-> standard_tokens, start_pos |-> start_pos]
    ELSE LET i == ScanUnits(tokens, start_pos, LEVEL_UNITS_LIST[n], 1)
         IN  IF i = 0 THEN ScanLevels(tokens, standard_tokens, start_pos, n + 1)
             ELSE ScanLevels(tokens, Append(standard_tokens, tokens[i]), i, n + 1)

\* StandardAddress.__init__ on the tokens of Address.__init__
Standardize(tokens) ==
    LET r == ScanLevels(tokens, <<>>, 0, 1)
    IN  r.standard_tokens \o SubSeq(tokens, r.start_pos + 1, Len(tokens))

\* StandardAddress(addr_str).tokens
StandardAddress(addr_str) == Standardize(Address(addr_str))

-----------------------------------------------------------------------------
(* Rule *)

QUAN == <<"quan">>
ZHI == <<"zhi">>
DAN == <<"dan">>
SHUANG == <<"shuang">>
LIAN == <<"lian">>
YISHANG == <<"yi", "shang">>
YIXIA == <<"yi", "xia">>
HANFUHAO == <<"han", "fu", "hao">>
FUHAOQUAN == <<"fu", "hao", "quan">>
JIYISHANGFUHAO == <<"ji", "yi", "shang", "fu", "hao">>
HANFUHAOYIXIA == <<"han", "fu", "hao", "yi", "xia">>
HANFUHAOQUAN == <<"han", "fu", "hao", "quan">>

\* s has the keyword w at position p
HasAt(s, p, w) == p + Len(w) - 1 <= Len(s) /\ SubSeq(s, p, p + Len(w) - 1) = w

\* The length of the match of RULE_TOKEN_RE that starts at position p, 0 if
\* none: the alternatives in their order.
RuleTokenLen(s, p) ==
    IF HasAt(s, p, JIYISHANGFUHAO) THEN 5
    ELSE IF HasAt(s, p, HANFUHAOYIXIA) THEN 5
    ELSE IF HasAt(s, p, HANFUHAOQUAN) THEN 4
    ELSE IF HasAt(s, p, HANFUHAO) THEN 3
    ELSE IF HasAt(s, p, YIXIA) THEN 2
    ELSE IF HasAt(s, p, YISHANG) THEN 2
    ELSE IF HasAt(s, p, FUHAOQUAN) THEN 3
    ELSE IF /\ At(s, p) \in {"lian", "zhi", "dan", "shuang", "quan"}
            /\ \/ At(s, p + 1) \in Digits
               \/ At(s, p + 1) = "quan"
               \/ p = Len(s) THEN 1
    ELSE 0

RECURSIVE RuleTokenSub(_, _, _)
\* RULE_TOKEN_RE.sub(extract, rule_str) from position p on, with the
\* rule_tokens that extract has collected: [rule_tokens, addr_str]
RuleTokenSub(s, p, rule_tokens) ==
    IF p > Len(s) THEN [rule_tokens |-> rule_tokens, addr_str |-> <<>>]
    ELSE LET n == RuleTokenLen(s, p)
             token == SubSeq(s, p, p + n - 1)
             retval == IF token = FUHAOQUAN THEN <<"hao">> ELSE <<>>
             rest == IF n = 0 THEN RuleTokenSub(s, p + 1, rule_tokens)
                     ELSE IF token = LIAN THEN RuleTokenSub(s, p + n, rule_tokens)
                     ELSE RuleTokenSub(s, p + n, rule_tokens \cup {token})
         IN  [rule_tokens |-> rest.rule_tokens,
              addr_str    |-> (IF n = 0 THEN <<s[p]>> ELSE retval) \o rest.addr_str]

\* Rule.part
part(rule_str) == RuleTokenSub(normalize(rule_str), 1, {})

\* Rule(rule_str): [rule_tokens, tokens]
Rule(rule_str) ==
    LET pr == part(rule_str)
    IN  [rule_tokens |-> pr.rule_tokens, tokens |-> Address(pr.addr_str)]

\* python's order on pairs of integers
PairLE(x, y) == x[1] < y[1] \/ (x[1] = y[1] /\ x[2] <= y[2])

Bool(b) == IF b THEN 1 ELSE 0

\* my_last_pos without the subtraction for zhi
MyLastPosNoZhi(rule) ==
    Len(rule.tokens) - 1
        - Bool(rule.rule_tokens # {} /\ QUAN \notin rule.rule_tokens)

\* my_last_pos after the two subtractions
MyLastPos(rule) ==
    Len(rule.tokens) - 1
        - Bool(rule.rule_tokens # {} /\ QUAN \notin rule.rule_tokens)
        - Bool(ZHI \in rule.rule_tokens)

\* the condition of the `if' inside `for rt in self.rule_tokens'
RuleTokenFails(rule, rt, his_no_pair, my_no_pair, my_asst_no_pair) ==
    \/ rt = DAN /\ ~(his_no_pair[1] % 2 = 1)
    \/ rt = SHUANG /\ ~(his_no_pair[1] % 2 = 0)
    \/ rt = YISHANG /\ ~PairLE(my_no_pair, his_no_pair)
    \/ rt = YIXIA /\ ~PairLE(his_no_pair, my_no_pair)
    \/ rt = ZHI /\ ~(\/ /\ PairLE(my_asst_no_pair, his_no_pair)
                        /\ PairLE(his_no_pair, my_no_pair)
                     \/ /\ HANFUHAOQUAN \in rule.rule_tokens
                        /\ his_no_pair[1] = my_no_pair[1])
    \/ rt = HANFUHAO /\ ~(his_no_pair[1] = my_no_pair[1])
    \/ rt = FUHAOQUAN /\ ~(his_no_pair[1] = my_no_pair[1] /\ his_no_pair[2] > 0)
    \/ rt = JIYISHANGFUHAO /\ ~PairLE(my_no_pair, his_no_pair)
    \/ rt = HANFUHAOYIXIA /\ ~(\/ PairLE(his_no_pair, my_no_pair)
                               \/ his_no_pair[1] = my_no_pair[1])

\* match without the test of his_no_pair against (0, 0)
matchAnyNumber(rule, addr) ==
    LET my_last_pos == MyLastPos(rule)
        his_no_pair == parse(addr, my_last_pos + 1)
        my_no_pair == parse(rule.tokens, -1)
        my_asst_no_pair == parse(rule.tokens, -2)
    IN  IF my_last_pos >= Len(addr) THEN FALSE
        ELSE IF \E i \in 1..(my_last_pos + 1) : rule.tokens[i] # addr[i] THEN FALSE
        ELSE ~\E rt \in rule.rule_tokens :
                 RuleTokenFails(rule, rt, his_no_pair, my_no_pair, my_asst_no_pair)

\* Rule.match(addr), addr given by its tokens
match(rule, addr) ==
    LET my_last_pos == MyLastPos(rule)
        his_no_pair == parse(addr, my_last_pos + 1)
        my_no_pair == parse(rule.tokens, -1)
        my_asst_no_pair == parse(rule.tokens, -2)
    IN  IF my_last_pos >= Len(addr) THEN FALSE
        ELSE IF \E i \in 1..(my_last_pos + 1) : rule.tokens[i] # addr[i] THEN FALSE
        ELSE IF rule.rule_tokens # {} /\ his_no_pair = <<0, 0>> THEN FALSE
        ELSE ~\E rt \in rule.rule_tokens :
                 RuleTokenFails(rule, rt, his_no_pair, my_no_pair, my_asst_no_pair)

-----------------------------------------------------------------------------
(* Directory: the two tables and the statements run on them.               *)
(* precise is a set of rows <<addr_str, rule_str, zipcode>>, gradual a set *)
(* of rows <<addr_str, zipcode>>; dir is [precise, gradual].               *)

None == <<"None">>

Min(a, b) == IF a <= b THEN a ELSE b

EmptyDir == [precise |-> {}, gradual |-> {}]

\* Directory.get_common_part: the for/else loop leaves i at the first
\* mismatch (break), or at its last value plus one (else)
get_common_part(str_a, str_b) ==
    IF str_a = None THEN str_b
    ELSE IF str_b = None THEN str_a
    ELSE LET n == Min(Len(str_a), Len(str_b))
             mismatches == {j \in 0..(n - 1) : str_a[j + 1] # str_b[j + 1]}
             i == IF mismatches # {}
                  THEN CHOOSE j \in mismatches : \A k \in mismatches : j <= k
                  ELSE (IF n = 0 THEN 0 ELSE n - 1) + 1
         IN  SubSeq(str_a, 1, Min(i, Len(str_a)))

\* put_precise with `insert or replace' in place of `insert or ignore'
put_precise_replace(dir, addr_str, rule_str, zipcode) ==
    [dir EXCEPT !.precise =
        {row \in @ : ~(row[1] = addr_str /\ row[2] = rule_str)}
            \cup {<<addr_str, rule_str, zipcode>>}]

\* insert or ignore into precise values (?, ?, ?)
put_precise(dir, addr_str, rule_str, zipcode) ==
    IF \E row \in dir.precise : row[1] = addr_str /\ row[2] = rule_str
    THEN dir
    ELSE [dir EXCEPT !.precise = @ \cup {<<addr_str, rule_str, zipcode>>}]

\* select zipcode from gradual where addr_str = ?; fetchone()
SelectGradual(dir, addr_str) ==
    LET rows == {row \in dir.gradual : row[1] = addr_str}
    IN  IF rows = {} THEN None ELSE (CHOOSE row \in rows : TRUE)[2]

\* Directory.put_gradual: select, then replace into gradual values (?, ?)
put_gradual(dir, addr_str, zipcode) ==
    LET stored_zipcode == SelectGradual(dir, addr_str)
    IN  [dir EXCEPT !.gradual =
            {row \in @ : row[1] # addr_str}
                \cup {<<addr_str, get_common_part(stored_zipcode, zipcode)>>}]

RECURSIVE FanOut(_, _, _)
\* the keys of the two nested loops of put, from (f, l) on, in order
FanOut(addr, f, l) ==
    IF f >= Len(addr) THEN <<>>
    ELSE IF l >= Len(addr) THEN FanOut(addr, f + 1, f + 1)
    ELSE <<flat(addr, f, l + 1)>> \o FanOut(addr, f, l + 1)

\* every addr_str that put hands to put_gradual, in order
GradualKeys(addr) ==
    FanOut(addr, 0, 0)
        \o (IF Len(addr) >= 3 THEN <<pick_to_flat(addr, 0, 2)>> ELSE <<>>)

RECURSIVE PutGraduals(_, _, _)
PutGraduals(dir, keys, zipcode) ==
    IF keys = <<>> THEN dir
    ELSE PutGraduals(put_gradual(dir, Head(keys), zipcode), Tail(keys), zipcode)

\* Directory.put
put(dir, head_addr_str, tail_rule_str, zipcode) ==
    LET addr == Address(head_addr_str)
        d1 == put_precise(dir, flat(addr, 0, Len(addr)),
                          head_addr_str \o tail_rule_str, zipcode)
    IN  PutGraduals(d1, GradualKeys(addr), zipcode)

\* Directory.get_rule_str_zipcode_pairs
get_rule_str_zipcode_pairs(dir, addr_str) ==
    {<<row[2], row[3]>> : row \in {r \in dir.precise : r[1] = addr_str}}

\* Directory.get_gradual_zipcode: row and row[0] or None
get_gradual_zipcode(dir, addr_str) ==
    LET zipcode == SelectGradual(dir, addr_str)
    IN  IF zipcode = None \/ zipcode = <<>> THEN None ELSE zipcode

RECURSIVE FindFromGradualFirst(_, _, _)
\* the for loop of find with the gradual test moved before the precise one
FindFromGradualFirst(dir, addr, i) ==
    IF i <= 0 THEN {<<>>}
    ELSE LET addr_str == flat(addr, 0, i)
             rzpairs == get_rule_str_zipcode_pairs(dir, addr_str)
             matching == {rz \in rzpairs : match(Rule(rz[1]), addr)}
             gzipcode == get_gradual_zipcode(dir, addr_str)
         IN  IF gzipcode # None THEN {gzipcode}
             ELSE IF matching # {} THEN {rz[2] : rz \in matching}
             ELSE FindFromGradualFirst(dir, addr, i - 1)

RECURSIVE FindFrom(_, _, _)
\* the for loop of find from i down: every value it can return, over the
\* orders in which the select can yield the rows of one addr_str
FindFrom(dir, addr, i) ==
    IF i <= 0 THEN {<<>>}
    ELSE LET addr_str == flat(addr, 0, i)
             rzpairs == get_rule_str_zipcode_pairs(dir, addr_str)
             matching == {rz \in rzpairs : match(Rule(rz[1]), addr)}
             gzipcode == get_gradual_zipcode(dir, addr_str)
         IN  IF matching # {} THEN {rz[2] : rz \in matching}
             ELSE IF gzipcode # None THEN {gzipcode}
             ELSE FindFrom(dir, addr, i - 1)

\* the body of Directory.find
find(dir, addr_str) ==
    LET addr == StandardAddress(addr_str)
    IN  FindFrom(dir, addr, Len(addr))

\* load_chp_csv: the arguments of put for a row of the csv reader
RowHead(row) == Join(SubSeq(row, 2, Len(row) - 1))
RowRule(row) == row[Len(row)]
RowZipcode(row) == row[1]

\* conn.commit(): what the database holds afterwards
commit(database, view) == view

\* a wrapper whose except clause does not roll back
rollback_missing(database, view) == view

\* conn.rollback(): what the connection sees afterwards
rollback(database, view) == database

\* the connection after `if not self.keep_alive or self.conn is None'
Connect(ka, c) == IF ~ka \/ c = "None" THEN "open" ELSE c

\* the connection after the `finally' clause
Close(ka, c) == IF ~ka THEN "closed" ELSE c

-----------------------------------------------------------------------------
(* Inputs *)

\* data rows one load reads at most
MaxRows == 2

TaipeiShi == <<"TAI", "bei", "shi">>
ZhongzhengQu == <<"zhong", "zheng", "qu">>
ZhongzhengLu == <<"zhong", "zheng", "lu">>
Hao(n) == <<n, "hao">>

Zipcodes == {<<>>, <<"1", "2">>, <<"1", "3">>}
RuleTails == {QUAN, Hao("1") \o ZHI \o Hao("2")}

\* rows of fewer than three fields: a blank line, one field, two fields
ShortRows == {<<>>, <<<<"1", "2">>>>, <<<<"1", "2">>, QUAN>>}

\* the rows csv.reader can yield: row[0] the zipcode, row[1:-1] the fields
\* of the address, row[-1] the rule
Rows ==
    ShortRows
        \cup {<<z, TaipeiShi, r>> : z \in Zipcodes, r \in RuleTails}
        \cup {<<z, TaipeiShi, ZhongzhengQu, ZhongzhengLu, QUAN>> : z \in Zipcodes}

\* the addresses find is asked for
Queries ==
    {<<>>, TaipeiShi, TaipeiShi \o Hao("3"), ZhongzhengQu,
     TaipeiShi \o ZhongzhengLu,
     TaipeiShi \o ZhongzhengQu \o ZhongzhengLu \o Hao("1")}

NoRow == <<None>>
NoCall == [op |-> "none", status |-> "none", retval |-> <<>>, arg |-> <<>>]

\* the variables of the calls that have not been made
NotStandardized == [done |-> 0, tokens |-> <<>>, standard |-> <<>>]
NoMatchCall == [rule_str |-> <<>>, addr_str |-> <<>>]
NotMatched ==
    [done |-> FALSE, rule |-> [rule_tokens |-> {}, tokens |-> <<>>],
     addr |-> <<>>, result |-> FALSE]
NoSingleRow ==
    [head |-> <<>>, a |-> "0", b |-> "0", n |-> "0", zipcode |-> <<>>]
NoSingleDir == [done |-> 0, dir |-> [precise |-> {}, gradual |-> {}], found |-> <<>>]

-----------------------------------------------------------------------------
(* The Directory object: within_a_transaction around load_chp_csv and find *)

Init ==
    /\ keep_alive \in BOOLEAN
    /\ conn = "None"
    /\ cur = "None"
    /\ tables = FALSE
    /\ db = EmptyDir
    /\ tx = EmptyDir
    /\ pc = "idle"
    /\ nrows = 0
    /\ outcome = NoCall
    /\ lastRow = NoRow
    /\ putLog = {}
    /\ written = {}
    /\ preLoad = EmptyDir
    /\ nsIn = <<>> /\ nsOut = <<>>
    /\ stIn = <<>> /\ stOut = NotStandardized
    /\ mIn = NoMatchCall /\ mOut = NotMatched
    /\ sIn = NoSingleRow /\ sOut = NoSingleDir

Raised(op, arg) == [op |-> op, status |-> "raised", retval |-> <<>>, arg |-> arg]
Returned(op, arg, retval) ==
    [op |-> op, status |-> "ok", retval |-> retval, arg |-> arg]

\* load_chp_csv is called on a database that has the tables already:
\* create_tables raises, the wrapper rolls back and re-raises
LoadCreateFails ==
    /\ pc = "idle"
    /\ tables
    /\ conn' = Close(keep_alive, Connect(keep_alive, conn))
    /\ cur' = "closed"
    /\ tx' = rollback(db, db)
    /\ preLoad' = db
    /\ nrows' = 0
    /\ lastRow' = NoRow
    /\ outcome' = Raised("load", <<>>)
    /\ UNCHANGED <<keep_alive, tables, db, pc, putLog, written>>
    /\ UNCHANGED pureVars

\* load_chp_csv on no lines at all: the tables are created (a create table
\* statement is not part of the transaction), next(lines_iter) raises
LoadHeaderFails ==
    /\ pc = "idle"
    /\ ~tables
    /\ tables' = TRUE
    /\ conn' = Close(keep_alive, Connect(keep_alive, conn))
    /\ cur' = "closed"
    /\ tx' = rollback(db, db)
    /\ preLoad' = db
    /\ nrows' = 0
    /\ lastRow' = NoRow
    /\ outcome' = Raised("load", <<>>)
    /\ UNCHANGED <<keep_alive, db, pc, putLog, written>>
    /\ UNCHANGED pureVars

\* load_chp_csv enters the wrapper, creates the tables, skips the header
LoadBegin ==
    /\ pc = "idle"
    /\ ~tables
    /\ tables' = TRUE
    /\ conn' = Connect(keep_alive, conn)
    /\ cur' = "open"
    /\ tx' = db
    /\ preLoad' = db
    /\ nrows' = 0
    /\ lastRow' = NoRow
    /\ putLog' = {}
    /\ written' = {}
    /\ pc' = "loading"
    /\ outcome' = NoCall
    /\ UNCHANGED <<keep_alive, db>>
    /\ UNCHANGED pureVars

\* one turn of `for row in csv.reader(lines_iter)' on a row with a field
LoadRow(row) ==
    /\ pc = "loading"
    /\ nrows < MaxRows
    /\ Len(row) >= 1
    /\ lastRow' = row
    /\ nrows' = nrows + 1
    /\ tx' = put(tx, RowHead(row), RowRule(row), RowZipcode(row))
    /\ putLog' = putLog \cup {row}
    /\ written' = written \cup
          {<<GradualKeys(Address(RowHead(row)))[k], RowZipcode(row)>> :
              k \in 1..Len(GradualKeys(Address(RowHead(row))))}
    /\ UNCHANGED <<keep_alive, conn, cur, tables, db, pc, outcome, preLoad>>
    /\ UNCHANGED pureVars

\* a row without fields: row[-1] raises IndexError before put is called,
\* the wrapper rolls back and re-raises
LoadRowFails(row) ==
    /\ pc = "loading"
    /\ nrows < MaxRows
    /\ Len(row) = 0
    /\ lastRow' = row
    /\ tx' = rollback(db, tx)
    /\ putLog' = {}
    /\ written' = {}
    /\ conn' = Close(keep_alive, conn)
    /\ cur' = "closed"
    /\ pc' = "idle"
    /\ outcome' = Raised("load", <<>>)
    /\ UNCHANGED <<keep_alive, tables, db, nrows, preLoad>>
    /\ UNCHANGED pureVars

\* the reader is exhausted: load_chp_csv returns, the wrapper commits
LoadEnd ==
    /\ pc = "loading"
    /\ db' = commit(db, tx)
    /\ conn' = Close(keep_alive, conn)
    /\ cur' = "closed"
    /\ pc' = "idle"
    /\ outcome' = Returned("load", <<>>, <<>>)
    /\ UNCHANGED <<keep_alive, tables, tx, nrows, lastRow, putLog, written,
                   preLoad>>
    /\ UNCHANGED pureVars

\* find on a database with the tables (or an address without tokens, for
\* which no statement runs): it returns, the wrapper commits
Find(addr_str) ==
    /\ pc = "idle"
    /\ tables \/ StandardAddress(addr_str) = <<>>
    /\ \E zipcode \in find(db, addr_str) :
          outcome' = Returned("find", addr_str, zipcode)
    /\ conn' = Close(keep_alive, Connect(keep_alive, conn))
    /\ cur' = "closed"
    /\ db' = commit(db, db)
    /\ tx' = db
    /\ UNCHANGED <<keep_alive, tables, pc, nrows, lastRow, putLog, written,
                   preLoad>>
    /\ UNCHANGED pureVars

\* find before any load: the first select raises (no such table)
FindFails(addr_str) ==
    /\ pc = "idle"
    /\ ~tables /\ StandardAddress(addr_str) # <<>>
    /\ outcome' = Raised("find", addr_str)
    /\ conn' = Close(keep_alive, Connect(keep_alive, conn))
    /\ cur' = "closed"
    /\ tx' = rollback(db, db)
    /\ UNCHANGED <<keep_alive, tables, db, pc, nrows, lastRow, putLog, written,
                   preLoad>>
    /\ UNCHANGED pureVars

Next ==
    \/ LoadCreateFails
    \/ LoadHeaderFails
    \/ LoadBegin
    \/ \E row \in Rows : LoadRow(row)
    \/ \E row \in Rows : LoadRowFails(row)
    \/ LoadEnd
    \/ \E addr_str \in Queries : Find(addr_str)
    \/ \E addr_str \in Queries : FindFails(addr_str)

Spec == Init /\ [][Next]_vars

TypeOK ==
    /\ pc \in {"idle", "loading"}
    /\ nrows \in 0..MaxRows
    /\ pc = "idle" => tx = db

-----------------------------------------------------------------------------
(* Properties of the Directory *)

IsPrefix(p, z) == Len(p) <= Len(z) /\ SubSeq(z, 1, Len(p)) = p

\* the character-wise longest common prefix of a non-empty set of strings
LongestCommonPrefix(zs) ==
    LET z0 == CHOOSE z \in zs : TRUE
        common == {n \in 0..Len(z0) :
                      \A z \in zs : IsPrefix(SubSeq(z0, 1, n), z)}
    IN  SubSeq(z0, 1, CHOOSE n \in common : \A m \in common : m <= n)

\* the zipcodes put_gradual was called with under key k
WrittenTo(k) == {w[2] : w \in {x \in written : x[1] = k}}

\* C1: after any sequence of put_gradual calls on a key, the stored zipcode
\* is the longest common prefix of all the zipcodes written under that key,
\* whatever their lengths, the empty string included.
C1_GradualIsCommonPrefix ==
    \A row \in tx.gradual : row[2] = LongestCommonPrefix(WrittenTo(row[1]))

\* the key put_precise is called with for a csv row
PreciseKey(row) ==
    <<flat(Address(RowHead(row)), 0, Len(Address(RowHead(row)))),
      RowHead(row) \o RowRule(row)>>

HasKey(precise, key) == \E r \in precise : <<r[1], r[2]>> = key

\* C2: a precise row keeps its zipcode once written (first writer wins), and
\* a put_precise on a key that is present changes no precise row at all.
C2_PreciseImmutable ==
    [][/\ \A r \in tx.precise :
              HasKey(tx'.precise, <<r[1], r[2]>>) =>
                  \A r2 \in tx'.precise :
                      <<r2[1], r2[2]>> = <<r[1], r[2]>> => r2 = r
       /\ (/\ pc = "loading" /\ pc' = "loading" /\ nrows' = nrows + 1
           /\ HasKey(tx.precise, PreciseKey(lastRow')))
             => tx'.precise = tx.precise]_vars

\* C2 witness: the row read last was put on a key that held another zipcode,
\* and the key still holds that one
C2_Witness ==
    /\ pc = "loading" /\ lastRow # NoRow /\ Len(lastRow) >= 1
    /\ \E r \in tx.precise :
          <<r[1], r[2]>> = PreciseKey(lastRow) /\ r[3] # RowZipcode(lastRow)

\* the precise rows keyed by the first i tokens of addr whose rule matches
PreciseHits(dir, addr, i) ==
    {row \in dir.precise :
        row[1] = flat(addr, 0, i) /\ match(Rule(row[2]), addr)}

\* the gradual rows keyed by the first i tokens of addr with a zipcode
GradualHits(dir, addr, i) ==
    {row \in dir.gradual : row[1] = flat(addr, 0, i) /\ row[2] # <<>>}

HitLengths(dir, addr) ==
    {i \in 1..Len(addr) :
        PreciseHits(dir, addr, i) # {} \/ GradualHits(dir, addr, i) # {}}

Longest(lengths) == CHOOSE i \in lengths : \A j \in lengths : j <= i

FindReturned == outcome.op = "find" /\ outcome.status = "ok"

\* the result comes from the longest prefix with a hit, precise before gradual
FromLongestHit(dir, addr, retval) ==
    LET lengths == HitLengths(dir, addr)
        i == Longest(lengths)
    IN  IF lengths = {} THEN retval = <<>>
        ELSE IF PreciseHits(dir, addr, i) # {}
             THEN \E row \in PreciseHits(dir, addr, i) : retval = row[3]
        ELSE \E row \in GradualHits(dir, addr, i) : retval = row[2]

\* C3 as stated: find returns from the longest prefix of the standardized
\* address that has a hit, a matching precise row before the non-empty
\* gradual row, and the empty string exactly when no prefix has a hit.
C3_FindAsStated ==
    FindReturned =>
        LET addr == StandardAddress(outcome.arg)
        IN  /\ FromLongestHit(db, addr, outcome.retval)
            /\ outcome.retval = <<>> <=> HitLengths(db, addr) = {}

\* C3 amended: as above, but the empty string is returned when no prefix has
\* a hit or when the hit is a matching precise row whose zipcode is empty.
C3_FindLongestPrefixFirst ==
    FindReturned =>
        LET addr == StandardAddress(outcome.arg)
            lengths == HitLengths(db, addr)
        IN  /\ FromLongestHit(db, addr, outcome.retval)
            /\ lengths = {} => outcome.retval = <<>>
            /\ (outcome.retval = <<>> /\ lengths # {}) =>
                  \E row \in PreciseHits(db, addr, Longest(lengths)) :
                      row[3] = <<>>

\* C3 witness: find returned the zipcode of a matching precise row at a key
\* that is not the whole address and whose gradual row holds another,
\* non-empty zipcode
C3_Witness ==
    /\ FindReturned
    /\ LET addr == StandardAddress(outcome.arg)
           lengths == HitLengths(db, addr)
       IN  /\ lengths # {}
           /\ Longest(lengths) < Len(addr)
           /\ PreciseHits(db, addr, Longest(lengths)) # {}
           /\ \E row \in GradualHits(db, addr, Longest(lengths)) :
                 row[2] # outcome.retval

LoadRaised == pc = "idle" /\ outcome.op = "load" /\ outcome.status = "raised"
LoadReturned == pc = "idle" /\ outcome.op = "load" /\ outcome.status = "ok"

\* C4: a load that raises leaves the database and the connection with the
\* rows they had before the load, whatever number of rows it had put; while
\* it runs nothing of it is in the database; a load that returns has all of
\* its writes in the database; outside a call nothing is uncommitted.
C4_LoadIsOneTransaction ==
    /\ pc = "loading" => db = preLoad
    /\ LoadRaised => db = preLoad /\ tx = preLoad
    /\ LoadReturned =>
          /\ db = tx
          /\ \A row \in putLog : HasKey(db.precise, PreciseKey(row))
          /\ \A w \in written : \E g \in db.gradual : g[1] = w[1]
    /\ pc = "idle" => tx = db

\* C4 witness: a load raised after it had put rows
C4_Witness == LoadRaised /\ nrows > 0 /\ Len(lastRow) = 0

\* C5: a data row with fewer than three fields aborts the load: put is never
\* called for it and the loop does not go on after it.
C5_ShortRowAborts ==
    /\ \A row \in putLog : Len(row) >= 3
    /\ (pc = "loading" /\ lastRow # NoRow) => Len(lastRow) >= 3

RECURSIVE IsSubrangeFrom(_, _, _)
IsSubrangeFrom(some, whole, f) ==
    IF f + Len(some) > Len(whole) THEN FALSE
    ELSE IF SubSeq(whole, f + 1, f + Len(some)) = some THEN TRUE
    ELSE IsSubrangeFrom(some, whole, f + 1)

\* the tokens `some' are a contiguous, non-empty sub-range of `whole'
IsSubrange(some, whole) == some # <<>> /\ IsSubrangeFrom(some, whole, 0)

\* P is in canonical order, its tokens are a contiguous sub-range of the
\* head of a loaded row, and no precise rule matches at a prefix of P
C8Applies(addr_str) ==
    LET addr == Address(addr_str)
    IN  /\ StandardAddress(addr_str) = addr
        /\ \E row \in putLog : IsSubrange(addr, Address(RowHead(row)))
        /\ \A i \in 1..Len(addr) : PreciseHits(db, addr, i) = {}

\* C8: for such a P, find(P) is the longest common prefix of the zipcodes
\* of all loaded rows that fanned out the key P.flat().
C8_FindGradualCommonPrefix ==
    (FindReturned /\ C8Applies(outcome.arg)) =>
        LET addr == Address(outcome.arg)
        IN  outcome.retval =
                LongestCommonPrefix(WrittenTo(flat(addr, 0, Len(addr))))

-----------------------------------------------------------------------------
(* Address.normalize applied to a string, and again to its result *)

\* the longest string normalize is given
MaxLen == 3

NormalizeChars ==
    {"1", "-", "F1", "H1", "H10", "tai", "TAI", "wan", "bei", "shi", "hao"}

NormalizeInput(s) ==
    /\ nsOut = <<>>
    /\ nsIn' = s
    /\ nsOut' = <<normalize(s)>>
    /\ UNCHANGED <<stIn, stOut, mIn, mOut, sIn, sOut>>
    /\ UNCHANGED dirVars

NormalizeAgain ==
    /\ Len(nsOut) = 1
    /\ nsOut' = Append(nsOut, normalize(nsOut[1]))
    /\ UNCHANGED <<nsIn, stIn, stOut, mIn, mOut, sIn, sOut>>
    /\ UNCHANGED dirVars

NextNormalize ==
    \/ \E s \in Strings(NormalizeChars, MaxLen) : NormalizeInput(s)
    \/ NormalizeAgain

SpecNormalize == Init /\ [][NextNormalize]_vars

\* C9: normalize(normalize(s)) = normalize(s) for every string over the
\* characters the rewrite rules mention.
C9_NormalizeIdempotent ==
    Len(nsOut) = 2 => nsOut[2] = nsOut[1]

-----------------------------------------------------------------------------
(* StandardAddress(addr_str) *)

\* the address parts an address string is made of at most
MaxParts == 3

XinzhuXian == <<"xin", "zhu", "xian">>
ZhubeiShi == <<"zhu", "bei", "shi">>
ZhongzhengLi == <<"zhong", "zheng", "li">>
ZhongzhengCun == <<"zhong", "zheng", "cun">>

AddressParts ==
    {XinzhuXian, ZhubeiShi, TaipeiShi, ZhongzhengQu, ZhongzhengLu,
     ZhongzhengLi, ZhongzhengCun, Hao("1")}

RECURSIVE PartStrings(_)
\* the concatenations of at most n address parts
PartStrings(n) ==
    IF n = 0 THEN {<<>>}
    ELSE LET shorter == PartStrings(n - 1)
         IN  shorter \cup {s \o q : s \in shorter, q \in AddressParts}

\* Address.__init__
TokenizeAddress(addr_str) ==
    /\ stOut.done = 0
    /\ stIn' = addr_str
    /\ stOut' = [done |-> 1, tokens |-> Address(addr_str), standard |-> <<>>]
    /\ UNCHANGED <<nsIn, nsOut, mIn, mOut, sIn, sOut>>
    /\ UNCHANGED dirVars

\* the rest of StandardAddress.__init__
StandardizeAddress ==
    /\ stOut.done = 1
    /\ stOut' = [stOut EXCEPT !.done = 2,
                               !.standard = Standardize(stOut.tokens)]
    /\ UNCHANGED <<nsIn, nsOut, stIn, mIn, mOut, sIn, sOut>>
    /\ UNCHANGED dirVars

NextStandard ==
    \/ \E addr_str \in PartStrings(MaxParts) : TokenizeAddress(addr_str)
    \/ StandardizeAddress

SpecStandard == Init /\ [][NextStandard]_vars

Standardized == stOut.done = 2

\* how often token t occurs in the sequence ts
Count(ts, t) == Cardinality({i \in 1..Len(ts) : ts[i] = t})

IsPermutation(ss, ts) ==
    /\ Len(ss) = Len(ts)
    /\ \A i \in 1..Len(ts) : Count(ss, ts[i]) = Count(ts, ts[i])

\* the level group (1, 2 or 3) the k-th of the picked tokens can stand for:
\* with k picked tokens before it, its group is at least k + 1
LevelGroups(token) ==
    {g \in 1..Len(LEVEL_UNITS_LIST) :
        \E j \in 1..Len(LEVEL_UNITS_LIST[g]) :
            Field(token, UNIT) = <<LEVEL_UNITS_LIST[g][j]>>}

RECURSIVE InLevelOrder(_, _)
\* the tokens can be given strictly increasing level groups above g
InLevelOrder(ts, g) ==
    IF ts = <<>> THEN TRUE
    ELSE \E h \in LevelGroups(Head(ts)) : h > g /\ InLevelOrder(Tail(ts), h)

RECURSIVE Pick(_, _, _)
\* the tokens of ts at the positions of the set sel, in their order in ts
Pick(ts, sel, i) ==
    IF i > Len(ts) THEN <<>>
    ELSE (IF i \in sel THEN <<ts[i]>> ELSE <<>>) \o Pick(ts, sel, i + 1)

\* standard is: some tokens from before a cursor c, in their original
\* order and in level-group order, the last of them the token at c, and
\* then every token after c
SelectsInOrder(tokens, standard) ==
    \E c \in 0..Len(tokens) :
        \E sel \in SUBSET (1..c) :
            /\ (c > 0) => c \in sel
            /\ InLevelOrder(Pick(tokens, sel, 1), 0)
            /\ standard =
                  Pick(tokens, sel, 1) \o SubSeq(tokens, c + 1, Len(tokens))

\* C10 as stated: the standardized tokens are a permutation of the input
\* tokens (none dropped, none duplicated), the leading ones in level-group
\* order, the tokens after the scan cursor in their original order.
C10_StandardIsPermutation ==
    Standardized =>
        /\ IsPermutation(stOut.standard, stOut.tokens)
        /\ SelectsInOrder(stOut.tokens, stOut.standard)

\* C10 amended: the standardized tokens are input tokens in their original
\* relative order, none duplicated: at most one token per level group, in
\* level-group order, up to the scan cursor, then all tokens after the
\* cursor; the tokens before the cursor that were not picked are dropped.
C10_StandardSelectsInOrder ==
    Standardized => SelectsInOrder(stOut.tokens, stOut.standard)

\* C10 witness: a token before the cursor was dropped
C10_Witness ==
    /\ Standardized
    /\ stOut.standard # <<>>
    /\ Len(stOut.standard) < Len(stOut.tokens)

-----------------------------------------------------------------------------
(* Rule(rule_str).match(StandardAddress(addr_str)), as find calls it, and  *)
(* find on a directory of one row whose rule is `a hao zhi b hao'          *)

\* the largest house number in a rule or an address
MaxNo == 3

\* str(n) for a number of one digit
DigitChar(n) == CHOOSE c \in Digits : DigitValue[c] = n

Numbers == {DigitChar(n) : n \in 0..MaxNo}

MatchHeads == {<<>>, TaipeiShi, TaipeiShi \o ZhongzhengLu}

SubHao(n, m) == <<n, "zhi1", m, "hao">>

MatchTails ==
    {Hao(a) \o ZHI \o Hao(b) : a, b \in Numbers}
        \cup {ZHI, Hao("1") \o ZHI, QUAN, Hao("1") \o QUAN, DAN \o QUAN,
              SubHao("1", "1") \o ZHI \o SubHao("2", "2"),
              Hao("2") \o YISHANG, <<>>}

MatchRules == {h \o t : h \in MatchHeads, t \in MatchTails}

MatchSuffixes ==
    {<<>>, SubHao("1", "1"), SubHao("2", "3"), ZhongzhengLu}
        \cup {Hao(n) : n \in Numbers}

MatchAddresses == {h \o t : h \in MatchHeads, t \in MatchSuffixes}

\* one Rule(rule_str).match(addr), line 408
MatchRule(rule_str, addr_str) ==
    /\ ~mOut.done /\ sOut.done = 0
    /\ mIn' = [rule_str |-> rule_str, addr_str |-> addr_str]
    /\ mOut' = [done   |-> TRUE,
                rule   |-> Rule(rule_str),
                addr   |-> StandardAddress(addr_str),
                result |-> match(Rule(rule_str), StandardAddress(addr_str))]
    /\ UNCHANGED <<nsIn, nsOut, stIn, stOut, sIn, sOut>>
    /\ UNCHANGED dirVars

SingleHeads ==
    {<<>>, TaipeiShi, TaipeiShi \o ZhongzhengLu, ZhongzhengQu \o TaipeiShi}

SingleRule(in) == Hao(in.a) \o ZHI \o Hao(in.b)
SingleQuery(in) == in.head \o Hao(in.n)

\* put(head, a hao zhi b hao, zipcode) on empty tables
SingleRowPut(head, a, b, n, zipcode) ==
    /\ ~mOut.done /\ sOut.done = 0
    /\ sIn' = [head |-> head, a |-> a, b |-> b, n |-> n, zipcode |-> zipcode]
    /\ sOut' = [done  |-> 1,
                dir   |-> put(EmptyDir, head, SingleRule(sIn'), zipcode),
                found |-> <<>>]
    /\ UNCHANGED <<nsIn, nsOut, stIn, stOut, mIn, mOut>>
    /\ UNCHANGED dirVars

\* find(head + n hao) on these tables
SingleRowFind ==
    /\ sOut.done = 1
    /\ \E zipcode \in find(sOut.dir, SingleQuery(sIn)) :
          sOut' = [sOut EXCEPT !.done = 2, !.found = zipcode]
    /\ UNCHANGED <<nsIn, nsOut, stIn, stOut, mIn, mOut, sIn>>
    /\ UNCHANGED dirVars

NextMatch ==
    \/ \E rule_str \in MatchRules, addr_str \in MatchAddresses :
          MatchRule(rule_str, addr_str)
    \/ \E head \in SingleHeads, a, b, n \in Numbers,
          zipcode \in Zipcodes :
          SingleRowPut(head, a, b, n, zipcode)
    \/ SingleRowFind

SpecMatch == Init /\ [][NextMatch]_vars

Matched == mOut.done
SingleFound == sOut.done = 2

\* (no, subno) pairs in lexicographic order
LexLE(x, y) == x[1] < y[1] \/ (x[1] = y[1] /\ x[2] <= y[2])

\* the first n tokens of the rule are tokens of the address, field by field
SamePrefix(rule_tokens, addr, n) ==
    /\ n <= Len(addr)
    /\ \A i \in 1..n : rule_tokens[i] = addr[i]

\* what C6 says of match for a rule whose qualifier set is {zhi}
ZhiMatches(rule_tokens, addr) ==
    LET my_last == Len(rule_tokens) - 3
        his == parse(addr, my_last + 1)
    IN  /\ my_last < Len(addr)
        /\ \A i \in 0..my_last : rule_tokens[i + 1] = addr[i + 1]
        /\ his # <<0, 0>>
        /\ LexLE(parse(rule_tokens, -2), his)
        /\ LexLE(his, parse(rule_tokens, -1))

C6Match ==
    (Matched /\ mOut.rule.rule_tokens = {ZHI}) =>
        (mOut.result <=> ZhiMatches(mOut.rule.tokens, mOut.addr))

\* find returned at a matching precise row
ViaPrecise(dir, addr) ==
    /\ HitLengths(dir, addr) # {}
    /\ PreciseHits(dir, addr, Longest(HitLengths(dir, addr))) # {}

NoPreciseMatch(dir, addr) ==
    \A i \in 1..Len(addr) : PreciseHits(dir, addr, i) = {}

InRange(in) ==
    /\ DigitValue[in.a] <= DigitValue[in.n]
    /\ DigitValue[in.n] <= DigitValue[in.b]

NumberToken(n) == <<<<n>>, <<>>, <<>>, <<"hao">>>>

\* the head has a token, and its tokens are the leading tokens of the rule
\* and of the standardized address, followed by the number tokens
HeadIsKept(in) ==
    LET head == Address(in.head)
    IN  /\ head # <<>>
        /\ Rule(in.head \o SingleRule(in)) =
              [rule_tokens |-> {ZHI},
               tokens |-> head \o <<NumberToken(in.a), NumberToken(in.b)>>]
        /\ StandardAddress(SingleQuery(in)) = head \o <<NumberToken(in.n)>>

\* C6 as stated: the characterisation of match for the qualifier set {zhi},
\* and, for the single row (zip, H, a hao zhi b hao): find(H + n hao)
\* returns zip through the precise index for every a <= n <= b, and no
\* precise row matches for n < a or n > b.
C6_ZhiRangeAsStated ==
    /\ C6Match
    /\ SingleFound =>
          LET addr == StandardAddress(SingleQuery(sIn))
          IN  IF InRange(sIn)
              THEN sOut.found = sIn.zipcode /\ ViaPrecise(sOut.dir, addr)
              ELSE NoPreciseMatch(sOut.dir, addr)

\* C6 amended: the same, for n >= 1 and a head H that has a token and
\* whose tokens are kept as the leading tokens of the rule and of the
\* standardized address.
C6_ZhiRange ==
    /\ C6Match
    /\ (SingleFound /\ HeadIsKept(sIn)) =>
          LET addr == StandardAddress(SingleQuery(sIn))
          IN  IF InRange(sIn) /\ DigitValue[sIn.n] >= 1
              THEN sOut.found = sIn.zipcode /\ ViaPrecise(sOut.dir, addr)
              ELSE NoPreciseMatch(sOut.dir, addr)

\* C6 witness: a number inside the range was found through the precise row
C6_Witness ==
    /\ SingleFound /\ HeadIsKept(sIn) /\ InRange(sIn)
    /\ DigitValue[sIn.a] < DigitValue[sIn.n]
    /\ DigitValue[sIn.n] < DigitValue[sIn.b]
    /\ sOut.found = sIn.zipcode
    /\ ViaPrecise(sOut.dir, StandardAddress(SingleQuery(sIn)))

\* C7 as stated: with the qualifier set {quan}, match is true exactly for
\* the addresses that begin with all the tokens of the rule, whatever
\* follows, nothing included.
C7_QuanAsStated ==
    (Matched /\ mOut.rule.rule_tokens = {QUAN}) =>
        (mOut.result <=>
            SamePrefix(mOut.rule.tokens, mOut.addr, Len(mOut.rule.tokens)))

\* C7 amended: with the qualifier set {quan}, match is true exactly for the
\* addresses that begin with all the tokens of the rule and go on with a
\* token whose (no, subno) is not (0, 0).
C7_QuanNeedsNumber ==
    (Matched /\ mOut.rule.rule_tokens = {QUAN}) =>
        (mOut.result <=>
            /\ SamePrefix(mOut.rule.tokens, mOut.addr, Len(mOut.rule.tokens))
            /\ parse(mOut.addr, Len(mOut.rule.tokens)) # <<0, 0>>)

\* C7 witness: the address is exactly the tokens of a rule with the
\* qualifier set {quan}, and match is false
C7_Witness ==
    /\ Matched /\ mOut.rule.rule_tokens = {QUAN}
    /\ mOut.rule.tokens # <<>>
    /\ mOut.addr = mOut.rule.tokens
    /\ ~mOut.result

====
